---------------------------- MODULE Spec2Model ----------------------------
(***************************************************************************)
(* Lockbox controller (src/Untitled-1.py): a keypad thread that enqueues   *)
(* key presses, an interpreter thread (StateMachineThread) that collects   *)
(* four keys and classifies them, and a window scheduler                   *)
(* (WindowModeThread) that periodically opens an unattended unlock window. *)
(* The three share one Lockbox record guarded by state_lock and one relay. *)
(*                                                                         *)
(* Granularity.  A `with self.state_lock:` block is two steps: acquiring   *)
(* the lock, and the block's body together with the release.  The body of  *)
(* temporary_unlock is split at its time.sleep, which it executes while    *)
(* holding the lock.  Reads of lockdown_active made outside the lock       *)
(* (lines 133 and 150) are steps of their own.  Statements that touch only *)
(* thread-local data (the interpreter's buffer) are merged with the        *)
(* neighbouring step.  Sleeps are modelled as arbitrary delays.            *)
(***************************************************************************)
EXTENDS Naturals, Sequences, FiniteSets

(* ------------------------------------------------------------------ *)
(* Configuration (lines 8-9) and mode names (lines 41-43)             *)
(* ------------------------------------------------------------------ *)
NORMAL_CODE == <<"1", "2", "3", "4">>

LOCKDOWN_CODE == <<"9", "9", "9", "9">>

LOCKDOWN == "LOCKDOWN"

WINDOW == "WINDOW"

NORMAL == "NORMAL"

\* A code that matches neither configured code (scenario C of the
\* specification), typed by the user of LiveSpec.
INVALID_SAMPLE == <<"1", "1", "1", "1">>

\* Number of keys in a code: the literal 4 of `len(self.buffer) >= 4`.
CODE_LEN == 4

\* The keys the keypad thread may emit: the symbols of KEY_MAP that occur in
\* the two codes, and '*'.
Keys == {"1", "2", "3", "4", "9", "*"}

\* Bound on the number of key events waiting in key_queue.
MaxQueue == 1

\* Bounds of the runs that keep the history of the key events: the number
\* of presses in all, and the number of key events waiting in key_queue.
MaxKeys == 5

MaxFifoQueue == 2

\* Console lines ([STATE] and [INFO] prints); log holds the last one.
LOG_NONE == "none"

LOG_LOCKDOWN == "[STATE] LOCKDOWN"

LOG_CLEARED == "[STATE] LOCKDOWN CLEARED -> NORMAL MODE"

LOG_WINDOW == "[STATE] WINDOW UNLOCK"

LOG_CLOSED == "[STATE] WINDOW CLOSED -> NORMAL MODE"

LOG_IGNORED == "[INFO] LOCKDOWN ACTIVE - IGNORING NORMAL UNLOCK"

LOG_NO_NEED == "[INFO] WINDOW UNLOCK ACTIVE - NO NEED FOR TEMPORARY UNLOCK"

LOG_TEMP == "[STATE] TEMPORARY UNLOCK"

LOG_TEMP_ENDED == "[STATE] TEMPORARY UNLOCK ENDED -> NORMAL MODE"

LOG_INVALID == "[INFO] INVALID CODE"

VARIABLES
    state,            \* Lockbox.state
    lockdown_active,  \* Lockbox.lockdown_active
    window_active,    \* Lockbox.window_active
    state_lock,       \* Lockbox.state_lock: the threads inside a `with` block
    relay,            \* RELAY_PIN: "locked" (GPIO.LOW) or "unlocked" (GPIO.HIGH)
    key_queue,        \* the Queue shared by KeypadThread and StateMachineThread
    buffer,           \* StateMachineThread.buffer
    ipc,              \* position of StateMachineThread
    spc,              \* position of WindowModeThread
    log,              \* last [STATE]/[INFO] line printed
    typed,            \* history: non-'*' keys consumed since the last reset
    tog,              \* history: 1 after a first lockdown-code entry made from
                      \*   NORMAL with the relay locked, else 0
    raced,            \* history: enter_lockdown ran while a window was open
                      \*   in the scheduler's current cycle
    produced,         \* history: the key events enqueued, in order (kept only
                      \*   by KeypadThread_run_recorded)
    consumed          \* history: the key events taken by the interpreter, in
                      \*   order (kept while produced is kept)

vars == <<state, lockdown_active, window_active, state_lock, relay, key_queue,
          buffer, ipc, spc, log, typed, tog, raced, produced, consumed>>

lockvars == <<state, lockdown_active, window_active, relay>>

(* ------------------------------------------------------------------ *)
(* RelayControl (lines 32-38)                                         *)
(* ------------------------------------------------------------------ *)
RelayControl_lock == "locked"

RelayControl_unlock == "unlocked"

(* ------------------------------------------------------------------ *)
(* Lockbox.__init__ (lines 46-50), StateMachineThread.__init__,       *)
(* the relay's initial level (line 29)                                *)
(* ------------------------------------------------------------------ *)
Init ==
    /\ state = NORMAL
    /\ lockdown_active = FALSE
    /\ window_active = FALSE
    /\ state_lock = {}
    /\ relay = RelayControl_lock
    /\ key_queue = <<>>
    /\ buffer = <<>>
    /\ ipc = "get"
    /\ spc = "sleep"
    /\ log = LOG_NONE
    /\ typed = <<>>
    /\ tog = 0
    /\ raced = FALSE
    /\ produced = <<>>
    /\ consumed = <<>>

(* ------------------------------------------------------------------ *)
(* threading.Lock: `with self.state_lock:` entry                      *)
(* ------------------------------------------------------------------ *)
\* Lock.acquire() succeeds only while no thread holds the lock.
CanAcquire_NoExclusion(holders) == TRUE

CanAcquire(holders) == holders = {}

\* The interpreter stands at the `with` of enter_lockdown, exit_lockdown or
\* temporary_unlock.
InterpAcquire ==
    /\ ipc \in {"enter", "exit", "temp"}
    /\ "interp" \notin state_lock
    /\ CanAcquire(state_lock)
    /\ state_lock' = state_lock \cup {"interp"}
    /\ UNCHANGED <<state, lockdown_active, window_active, relay, key_queue,
                   buffer, ipc, spc, log, typed, tog, raced>>
    /\ UNCHANGED <<produced, consumed>>

\* The scheduler stands at the `with` of trigger_window_unlock or
\* end_window_unlock.
SchedAcquire ==
    /\ spc \in {"trigger", "end"}
    /\ "sched" \notin state_lock
    /\ CanAcquire(state_lock)
    /\ state_lock' = state_lock \cup {"sched"}
    /\ UNCHANGED <<state, lockdown_active, window_active, relay, key_queue,
                   buffer, ipc, spc, log, typed, tog, raced>>
    /\ UNCHANGED <<produced, consumed>>

(* ------------------------------------------------------------------ *)
(* KeypadThread.run (lines 100-109): one detected press                *)
(* ------------------------------------------------------------------ *)
\* Line 106 with the event put at the head of the queue.
QueuePut_AtHead(q, k) == <<k>> \o q

\* Queue.put (line 106): the event joins the tail of the queue.
QueuePut(q, k) == Append(q, k)

\* Queue.get (line 120): the event at the head of the queue.
QueueGet(q) == Head(q)

KeypadThread_run ==
    /\ Len(key_queue) < MaxQueue
    /\ \E k \in Keys : key_queue' = QueuePut(key_queue, k)
    /\ UNCHANGED <<state, lockdown_active, window_active, state_lock, relay,
                   buffer, ipc, spc, log, typed, tog, raced, produced,
                   consumed>>

\* The same step with the history of the key events kept: at most MaxKeys
\* presses in all, at most MaxFifoQueue of them waiting.
KeypadThread_run_recorded ==
    /\ Len(produced) < MaxKeys
    /\ Len(key_queue) < MaxFifoQueue
    /\ \E k \in Keys :
         /\ key_queue' = QueuePut(key_queue, k)
         /\ produced' = Append(produced, k)
    /\ UNCHANGED <<state, lockdown_active, window_active, state_lock, relay,
                   buffer, ipc, spc, log, typed, tog, raced, consumed>>

(* ------------------------------------------------------------------ *)
(* StateMachineThread.run (lines 118-129): one key event               *)
(* ------------------------------------------------------------------ *)
IsClearKey(key) == key = "*"

\* Line 127 with the comparison off by one.
BufferFull_OffByOne(buf) == Len(buf) > CODE_LEN

BufferFull(buf) == Len(buf) >= CODE_LEN

\* History of the keys since the last reset, kept beside the code's buffer.
TypedAfter(key) ==
    IF key = "*" THEN <<>>
    ELSE IF Len(typed) + 1 = CODE_LEN THEN <<>>
    ELSE Append(typed, key)

StateMachineThread_run ==
    /\ ipc = "get"
    /\ key_queue # <<>>
    /\ LET key == QueueGet(key_queue) IN
         /\ key_queue' = Tail(key_queue)
         /\ typed' = TypedAfter(key)
         /\ consumed' = IF produced # <<>> THEN Append(consumed, key)
                                          ELSE consumed
         /\ IF IsClearKey(key)
              THEN /\ buffer' = <<>>
                   /\ ipc' = "get"
              ELSE /\ buffer' = Append(buffer, key)
                   /\ ipc' = IF BufferFull(Append(buffer, key))
                               THEN "process" ELSE "get"
    /\ UNCHANGED <<state, lockdown_active, window_active, state_lock, relay,
                   spc, log, tog, raced, produced>>

(* ------------------------------------------------------------------ *)
(* StateMachineThread.process_code (lines 131-140)                     *)
(* ------------------------------------------------------------------ *)
\* Which Lockbox method a lockdown code calls, from the unlocked read of
\* lockdown_active at line 133 (ToggleCall_Inverted: the two branches of
\* lines 133-136 exchanged).
ToggleCall_Inverted(ld) == IF ld THEN "enter" ELSE "exit"

ToggleCall(ld) == IF ld THEN "exit" ELSE "enter"

\* Lines 132-140 with the `elif` test dropped: every code that is not the
\* lockdown code is taken for the normal code.
Classify_NoElif(buf) ==
    IF buf = LOCKDOWN_CODE THEN "toggle" ELSE "normal"

\* The branch of process_code a buffer selects.
Classify(buf) ==
    IF buf = LOCKDOWN_CODE THEN "toggle"
    ELSE IF buf = NORMAL_CODE THEN "normal"
    ELSE "invalid"

process_code ==
    /\ ipc = "process"
    /\ IF Classify(buffer) = "toggle"
         THEN /\ ipc' = ToggleCall(lockdown_active)
              /\ UNCHANGED <<buffer, log, tog>>
         ELSE IF Classify(buffer) = "normal"
           THEN /\ ipc' = "temp"
                /\ tog' = 0
                /\ UNCHANGED <<buffer, log>>
           ELSE /\ log' = LOG_INVALID
                /\ buffer' = <<>>
                /\ ipc' = "get"
                /\ tog' = 0
    /\ UNCHANGED <<state, lockdown_active, window_active, state_lock, relay,
                   key_queue, spc, typed, raced>>
    /\ UNCHANGED <<produced, consumed>>

\* History for the toggle law: a lockdown-code transition that starts from
\* NORMAL with the relay locked opens a pair, the next one closes it.
TogAfter ==
    IF tog = 0 /\ state = NORMAL /\ relay = "locked" THEN 1 ELSE 0

(* ------------------------------------------------------------------ *)
(* Lockbox.enter_lockdown (lines 52-57), called from line 136, then    *)
(* line 129                                                            *)
(* ------------------------------------------------------------------ *)
enter_lockdown ==
    /\ ipc = "enter"
    /\ "interp" \in state_lock
    /\ state' = LOCKDOWN
    /\ lockdown_active' = TRUE
    /\ relay' = RelayControl_lock
    /\ log' = LOG_LOCKDOWN
    /\ state_lock' = state_lock \ {"interp"}
    /\ buffer' = <<>>
    /\ ipc' = "get"
    /\ tog' = TogAfter
    /\ raced' = (raced \/ window_active)
    /\ UNCHANGED <<window_active, key_queue, spc, typed>>
    /\ UNCHANGED <<produced, consumed>>

(* ------------------------------------------------------------------ *)
(* Lockbox.exit_lockdown (lines 59-64), called from line 134, then     *)
(* line 129                                                            *)
(* ------------------------------------------------------------------ *)
\* Line 61 with the assignment to self.state left out of effect.
exit_lockdown_state_Kept == LOCKDOWN

\* Line 61: `self.state = NORMAL`.
exit_lockdown_state == NORMAL

\* Line 63 with RelayControl.unlock() in place of RelayControl.lock().
exit_lockdown_relay_Unlocks == RelayControl_unlock

\* Line 63: `RelayControl.lock()`.
exit_lockdown_relay == RelayControl_lock

exit_lockdown ==
    /\ ipc = "exit"
    /\ "interp" \in state_lock
    /\ state' = exit_lockdown_state
    /\ lockdown_active' = FALSE
    /\ relay' = exit_lockdown_relay
    /\ log' = LOG_CLEARED
    /\ state_lock' = state_lock \ {"interp"}
    /\ buffer' = <<>>
    /\ ipc' = "get"
    /\ tog' = TogAfter
    /\ UNCHANGED <<window_active, key_queue, spc, typed, raced>>
    /\ UNCHANGED <<produced, consumed>>

(* ------------------------------------------------------------------ *)
(* Lockbox.temporary_unlock (lines 81-93), called from line 138        *)
(* ------------------------------------------------------------------ *)
\* Lines 83-90: the guards, then the unlock; the sleep follows with the
\* lock still held.
\* Line 83 with the lockdown guard missing.
RefusedByLockdown_NoGuard(ld) == FALSE

\* Line 83: `if self.lockdown_active`.
RefusedByLockdown(ld) == ld

\* Line 86 with the window guard missing.
RefusedByWindow_NoGuard(wa) == FALSE

\* Line 86: `if self.window_active`.
RefusedByWindow(wa) == wa

temporary_unlock ==
    /\ ipc = "temp"
    /\ "interp" \in state_lock
    /\ IF RefusedByLockdown(lockdown_active)
         THEN /\ log' = LOG_IGNORED
              /\ state_lock' = state_lock \ {"interp"}
              /\ buffer' = <<>>
              /\ ipc' = "get"
              /\ UNCHANGED relay
         ELSE IF RefusedByWindow(window_active)
           THEN /\ log' = LOG_NO_NEED
                /\ state_lock' = state_lock \ {"interp"}
                /\ buffer' = <<>>
                /\ ipc' = "get"
                /\ UNCHANGED relay
           ELSE /\ relay' = RelayControl_unlock
                /\ log' = LOG_TEMP
                /\ ipc' = "temp_sleep"
                /\ UNCHANGED <<state_lock, buffer>>
    /\ UNCHANGED <<state, lockdown_active, window_active, key_queue, spc,
                   typed, tog, raced>>
    /\ UNCHANGED <<produced, consumed>>

\* Lines 91-93 and the release, then line 129.
temporary_unlock_end ==
    /\ ipc = "temp_sleep"
    /\ "interp" \in state_lock
    /\ relay' = RelayControl_lock
    /\ log' = LOG_TEMP_ENDED
    /\ state_lock' = state_lock \ {"interp"}
    /\ buffer' = <<>>
    /\ ipc' = "get"
    /\ UNCHANGED <<state, lockdown_active, window_active, key_queue, spc,
                   typed, tog, raced>>
    /\ UNCHANGED <<produced, consumed>>

(* ------------------------------------------------------------------ *)
(* WindowModeThread.run (lines 147-153)                                *)
(* ------------------------------------------------------------------ *)
\* Lines 149-150: the interval has passed; the unlocked read of
\* lockdown_active decides whether this cycle opens a window.
\* Line 150 with the test of lockdown_active missing.
SchedulerProceeds_NoCheck(ld) == TRUE

\* Line 150 with the test inverted.
SchedulerProceeds_Inverted(ld) == ld

\* Line 150: `if not self.lockbox.lockdown_active`.
SchedulerProceeds(ld) == ~ld

WindowModeThread_check ==
    /\ spc = "sleep"
    /\ spc' = IF SchedulerProceeds(lockdown_active) THEN "trigger" ELSE "sleep"
    /\ raced' = FALSE
    /\ UNCHANGED <<state, lockdown_active, window_active, state_lock, relay,
                   key_queue, buffer, ipc, log, typed, tog>>
    /\ UNCHANGED <<produced, consumed>>

\* Lines 152-153 with end_window_unlock skipped when lockdown has become
\* active during the window.
WindowModeThread_window_over_SkipEnd ==
    /\ spc = "window"
    /\ spc' = IF lockdown_active THEN "sleep" ELSE "end"
    /\ UNCHANGED <<state, lockdown_active, window_active, state_lock, relay,
                   key_queue, buffer, ipc, log, typed, tog, raced>>
    /\ UNCHANGED <<produced, consumed>>

\* Lines 152-153: the window's sleep is over; end_window_unlock is called.
WindowModeThread_window_over ==
    /\ spc = "window"
    /\ spc' = "end"
    /\ UNCHANGED <<state, lockdown_active, window_active, state_lock, relay,
                   key_queue, buffer, ipc, log, typed, tog, raced>>
    /\ UNCHANGED <<produced, consumed>>

(* ------------------------------------------------------------------ *)
(* Lockbox.trigger_window_unlock (lines 66-72)                         *)
(* ------------------------------------------------------------------ *)
\* Line 68 with the lockdown guard missing.
WindowAllowed_NoGuard(ld) == TRUE

\* Line 68: `if not self.lockdown_active`.
WindowAllowed(ld) == ~ld

trigger_window_unlock ==
    /\ spc = "trigger"
    /\ "sched" \in state_lock
    /\ IF WindowAllowed(lockdown_active)
         THEN /\ window_active' = TRUE
              /\ state' = WINDOW
              /\ relay' = RelayControl_unlock
              /\ log' = LOG_WINDOW
         ELSE UNCHANGED <<window_active, state, relay, log>>
    /\ state_lock' = state_lock \ {"sched"}
    /\ spc' = "window"
    /\ UNCHANGED <<lockdown_active, key_queue, buffer, ipc, typed, tog, raced>>
    /\ UNCHANGED <<produced, consumed>>

(* ------------------------------------------------------------------ *)
(* Lockbox.end_window_unlock (lines 74-79)                             *)
(* ------------------------------------------------------------------ *)
\* Line 78 left out: the relay stays as it is.
end_window_unlock_relay_Kept == relay

\* Line 78: `RelayControl.lock()`.
end_window_unlock_relay == RelayControl_lock

end_window_unlock ==
    /\ spc = "end"
    /\ "sched" \in state_lock
    /\ window_active' = FALSE
    /\ state' = NORMAL
    /\ relay' = end_window_unlock_relay
    /\ log' = LOG_CLOSED
    /\ state_lock' = state_lock \ {"sched"}
    /\ spc' = "sleep"
    /\ UNCHANGED <<lockdown_active, key_queue, buffer, ipc, typed, tog, raced>>
    /\ UNCHANGED <<produced, consumed>>

Next ==
    \/ KeypadThread_run
    \/ StateMachineThread_run
    \/ process_code
    \/ InterpAcquire
    \/ enter_lockdown
    \/ exit_lockdown
    \/ temporary_unlock
    \/ temporary_unlock_end
    \/ WindowModeThread_check
    \/ SchedAcquire
    \/ trigger_window_unlock
    \/ WindowModeThread_window_over
    \/ end_window_unlock

Spec == Init /\ [][Next]_vars

\* The same program with the history of the key events kept.
NextFifo ==
    \/ KeypadThread_run_recorded
    \/ StateMachineThread_run
    \/ process_code
    \/ InterpAcquire
    \/ enter_lockdown
    \/ exit_lockdown
    \/ temporary_unlock
    \/ temporary_unlock_end
    \/ WindowModeThread_check
    \/ SchedAcquire
    \/ trigger_window_unlock
    \/ WindowModeThread_window_over
    \/ end_window_unlock

\* The scheduling the threads run under: a thread that can take a step
\* takes it (sleeps end, a non-empty queue returns from get), and a thread
\* blocked at `with self.state_lock` gets the lock if it is released again
\* and again.  The keypad thread is under no obligation: no key need ever
\* be pressed.
Fairness ==
    /\ WF_vars(StateMachineThread_run)
    /\ WF_vars(process_code)
    /\ SF_vars(InterpAcquire)
    /\ WF_vars(enter_lockdown)
    /\ WF_vars(exit_lockdown)
    /\ WF_vars(temporary_unlock)
    /\ WF_vars(temporary_unlock_end)
    /\ WF_vars(WindowModeThread_check)
    /\ SF_vars(SchedAcquire)
    /\ WF_vars(trigger_window_unlock)
    /\ WF_vars(WindowModeThread_window_over)
    /\ WF_vars(end_window_unlock)

FairSpec == Init /\ [][Next]_vars /\ Fairness

\* A user who types codes: every press is '*' or continues, from the last
\* reset on, the normal code, the lockdown code or the sample invalid code.
\* What the user has typed since the last reset is typed followed by the
\* key events still waiting.
TypedCodes == {NORMAL_CODE, LOCKDOWN_CODE, INVALID_SAMPLE}

IsPrefix(p, c) ==
    Len(p) <= Len(c) /\ \A i \in 1..Len(p) : p[i] = c[i]

RECURSIVE TypedAhead(_, _)
TypedAhead(t, q) ==
    IF q = <<>> THEN t
    ELSE TypedAhead(
           IF Head(q) = "*" \/ Len(t) + 1 = CODE_LEN THEN <<>>
                                                     ELSE Append(t, Head(q)),
           Tail(q))

KeypadThread_run_codes ==
    /\ Len(key_queue) < MaxQueue
    /\ \E k \in Keys :
         /\ \/ k = "*"
            \/ \E c \in TypedCodes :
                  IsPrefix(Append(TypedAhead(typed, key_queue), k), c)
         /\ key_queue' = QueuePut(key_queue, k)
    /\ UNCHANGED <<state, lockdown_active, window_active, state_lock, relay,
                   buffer, ipc, spc, log, typed, tog, raced, produced,
                   consumed>>

NextLive ==
    \/ KeypadThread_run_codes
    \/ StateMachineThread_run
    \/ process_code
    \/ InterpAcquire
    \/ enter_lockdown
    \/ exit_lockdown
    \/ temporary_unlock
    \/ temporary_unlock_end
    \/ WindowModeThread_check
    \/ SchedAcquire
    \/ trigger_window_unlock
    \/ WindowModeThread_window_over
    \/ end_window_unlock

LiveSpec == Init /\ [][NextLive]_vars /\ Fairness

\* Recording starts either at construction or in the state the program is
\* in after a first lockdown code (keys 9,9,9,9, enter_lockdown) entered
\* while the scheduler was in its interval sleep.
InitFifo ==
    /\ lockdown_active \in BOOLEAN
    /\ state = IF lockdown_active THEN LOCKDOWN ELSE NORMAL
    /\ log = IF lockdown_active THEN LOG_LOCKDOWN ELSE LOG_NONE
    /\ tog = IF lockdown_active THEN 1 ELSE 0
    /\ window_active = FALSE
    /\ state_lock = {}
    /\ relay = RelayControl_lock
    /\ key_queue = <<>>
    /\ buffer = <<>>
    /\ ipc = "get"
    /\ spc = "sleep"
    /\ typed = <<>>
    /\ raced = FALSE
    /\ produced = <<>>
    /\ consumed = <<>>

SpecFifo == InitFifo /\ [][NextFifo]_vars

TypeOK ==
    /\ state \in {NORMAL, WINDOW, LOCKDOWN}
    /\ lockdown_active \in BOOLEAN
    /\ window_active \in BOOLEAN
    /\ state_lock \subseteq {"interp", "sched"}
    /\ relay \in {"locked", "unlocked"}
    /\ Len(key_queue) <= MaxFifoQueue
    /\ Len(buffer) <= CODE_LEN
    /\ ipc \in {"get", "process", "enter", "exit", "temp", "temp_sleep"}
    /\ spc \in {"sleep", "trigger", "window", "end"}
    /\ tog \in {0, 1}
    /\ raced \in BOOLEAN

(* ------------------------------------------------------------------ *)
(* Steps of the transition operations, recognised by the caller's      *)
(* position and the lock                                               *)
(* ------------------------------------------------------------------ *)
\* The body of trigger_window_unlock executes.
TriggerStep == spc = "trigger" /\ "sched" \in state_lock /\ spc' = "window"

\* The body of end_window_unlock executes.
EndStep == spc = "end" /\ "sched" \in state_lock /\ spc' = "sleep"

\* The guards of temporary_unlock (and the unlock, if they pass) execute.
TempStep == ipc = "temp" /\ "interp" \in state_lock /\ ipc' # "temp"

\* The body of enter_lockdown or exit_lockdown executes.
ToggleStep == ipc \in {"enter", "exit"} /\ "interp" \in state_lock /\ ipc' = "get"

\* The interpreter takes a key event from the queue.
GetStep == ipc = "get" /\ Len(key_queue') < Len(key_queue)

(* ------------------------------------------------------------------ *)
(* C1                                                                  *)
(* ------------------------------------------------------------------ *)
\* C1: in every reachable state lockdown_active is true if and only if
\* state is LOCKDOWN.  (Violated: end_window_unlock sets state to NORMAL
\* and leaves lockdown_active set.)
C1_LockdownIffMode == lockdown_active <=> (state = LOCKDOWN)

(* ------------------------------------------------------------------ *)
(* C2                                                                  *)
(* ------------------------------------------------------------------ *)
\* C2: in every reachable state, window_active implies that state is WINDOW
\* and lockdown_active is false.  (Violated: enter_lockdown and
\* exit_lockdown leave window_active set.)
C2_WindowImpliesMode ==
    window_active => (state = WINDOW /\ ~lockdown_active)

(* ------------------------------------------------------------------ *)
(* C3                                                                  *)
(* ------------------------------------------------------------------ *)
\* C3 (priority law): a step in which trigger_window_unlock or
\* temporary_unlock executes while lockdown_active is true leaves state,
\* lockdown_active, window_active and the relay unchanged, and
\* temporary_unlock returns without sleeping.
C3_PriorityLaw ==
    [][ /\ (lockdown_active /\ TriggerStep) => UNCHANGED lockvars
        /\ (lockdown_active /\ TempStep) =>
               (UNCHANGED lockvars /\ ipc' = "get") ]_vars

\* Lockdown was entered after the scheduler's unlocked check saw false:
\* trigger_window_unlock has run and opened no window, and a normal code
\* has since been refused.
C3_Witness ==
    /\ spc = "window"
    /\ ~window_active
    /\ lockdown_active
    /\ state = LOCKDOWN
    /\ relay = "locked"
    /\ log = LOG_IGNORED

(* ------------------------------------------------------------------ *)
(* C4                                                                  *)
(* ------------------------------------------------------------------ *)
\* C4: in every reachable state in which lockdown_active is true the relay
\* is locked.
C4_LockdownLocked == lockdown_active => relay = "locked"

\* Lockdown was entered over an open window (window_active is still set)
\* and a normal code has been refused since; the relay is locked.
C4_Witness ==
    /\ lockdown_active
    /\ window_active
    /\ raced
    /\ log = LOG_IGNORED
    /\ relay = "locked"

(* ------------------------------------------------------------------ *)
(* C5                                                                  *)
(* ------------------------------------------------------------------ *)
\* C5 (scenario A): when temporary_unlock executes for a completed normal
\* code while state is NORMAL, it unlocks the relay and sleeps; when the
\* temporary unlock ends the relay is locked again and state is NORMAL.
\* (Violated: state can be NORMAL while lockdown_active or window_active is
\* still set, and temporary_unlock then refuses.)
C5_ScenarioA ==
    [][ /\ (TempStep /\ buffer = NORMAL_CODE /\ state = NORMAL) =>
               (relay' = "unlocked" /\ ipc' = "temp_sleep")
        /\ (ipc = "temp_sleep" /\ ipc' = "get") =>
               (relay' = "locked" /\ state' = NORMAL) ]_vars

(* ------------------------------------------------------------------ *)
(* C6                                                                  *)
(* ------------------------------------------------------------------ *)
\* C6 (toggle law): a lockdown-code transition that starts from state
\* NORMAL with the relay locked results in LOCKDOWN with the relay locked,
\* and the next lockdown-code transition results in NORMAL with the relay
\* locked, whatever the scheduler does in between.  (Violated: state can be
\* NORMAL while lockdown_active is set, and the first entry then calls
\* exit_lockdown.)
C6_ToggleLaw ==
    [][ /\ (ToggleStep /\ tog = 0 /\ state = NORMAL /\ relay = "locked") =>
               (state' = LOCKDOWN /\ relay' = "locked")
        /\ (ToggleStep /\ tog = 1) =>
               (state' = NORMAL /\ relay' = "locked") ]_vars

(* ------------------------------------------------------------------ *)
(* C7                                                                  *)
(* ------------------------------------------------------------------ *)
\* C7 (window idempotence under lockdown race): once the window's sleep
\* has begun the scheduler goes on to end_window_unlock whether or not
\* lockdown has been entered meanwhile; end_window_unlock leaves the relay
\* locked and the window closed; and after enter_lockdown has run during
\* the window the relay is locked for as long as lockdown stays active.
C7_WindowRace ==
    [][ /\ (spc = "window" => spc' \in {"window", "end"})
        /\ (spc = "end" => spc' = "end" \/ EndStep)
        /\ (EndStep => relay' = "locked" /\ ~window_active')
        /\ (raced /\ lockdown_active /\ lockdown_active' =>
               relay' = "locked") ]_vars

\* enter_lockdown ran while the window was open, end_window_unlock has run
\* since, lockdown is still active and the relay is locked.
C7_Witness ==
    /\ raced
    /\ spc = "sleep"
    /\ log = LOG_CLOSED
    /\ ~window_active
    /\ lockdown_active
    /\ relay = "locked"

(* ------------------------------------------------------------------ *)
(* C8                                                                  *)
(* ------------------------------------------------------------------ *)
\* C8 (buffer reset law): whenever the interpreter is back at the queue the
\* buffer holds the non-'*' keys taken since the last reset, at most 3 of
\* them; '*' empties the buffer and classifies nothing (no change of the
\* lock state, the lock or the log); the 4th non-'*' key since the last
\* reset, and no other key, starts a classification, of exactly those 4
\* keys; and the buffer is empty once the classification has finished.
C8_BufferReset ==
    [][ /\ (ipc' = "get" => Len(buffer') <= 3 /\ buffer' = typed')
        /\ (GetStep /\ Head(key_queue) = "*" =>
               /\ buffer' = <<>>
               /\ ipc' = "get"
               /\ UNCHANGED <<lockvars, state_lock, log>>)
        /\ (GetStep /\ Head(key_queue) # "*" /\ Len(typed) = 3 =>
               /\ ipc' = "process"
               /\ buffer' = Append(typed, Head(key_queue)))
        /\ (GetStep /\ ipc' = "process" =>
               Head(key_queue) # "*" /\ Len(typed) = 3)
        /\ (ipc # "get" /\ ipc' = "get" => buffer' = <<>>) ]_vars

\* A 4th key completed the normal code, its classification (a temporary
\* unlock) has finished, the interpreter is back at the queue and the
\* buffer is empty.
C8_Witness ==
    /\ ipc = "get"
    /\ log = LOG_TEMP_ENDED
    /\ buffer = <<>>
    /\ typed = <<>>

(* ------------------------------------------------------------------ *)
(* C9                                                                  *)
(* ------------------------------------------------------------------ *)
\* C9 (invalid code): when process_code runs on a buffer that equals
\* neither code, the step changes neither state, the two flags, the relay
\* nor the lock, reports the invalid code, and leaves the buffer empty with
\* the interpreter back at the queue.
C9_InvalidCode ==
    [][ (ipc = "process" /\ ipc' # "process"
           /\ buffer # LOCKDOWN_CODE /\ buffer # NORMAL_CODE) =>
          /\ UNCHANGED <<lockvars, state_lock>>
          /\ log' = LOG_INVALID
          /\ buffer' = <<>>
          /\ ipc' = "get" ]_vars

\* An invalid code was reported while a window was open: the window, the
\* relay and the buffer are as the claim says.
C9_Witness ==
    /\ log = LOG_INVALID
    /\ buffer = <<>>
    /\ ipc = "get"
    /\ window_active
    /\ relay = "unlocked"

(* ------------------------------------------------------------------ *)
(* C10                                                                 *)
(* ------------------------------------------------------------------ *)
\* C10 (linearizability): at most one thread is inside a `with
\* self.state_lock` block; state, the flags and the relay change only in a
\* step of the thread holding the lock; and from the unlock of
\* temporary_unlock to its relock the relay is unlocked and state and the
\* flags do not change.
C10_Linearizable ==
    [][ /\ Cardinality(state_lock') <= 1
        /\ (lockvars' # lockvars => Cardinality(state_lock) = 1)
        /\ (ipc' = "temp_sleep" =>
               relay' = "unlocked" /\ state_lock' = {"interp"})
        /\ (ipc = "temp_sleep" /\ ipc' = "temp_sleep" =>
               UNCHANGED lockvars) ]_vars

\* The scheduler waits for the lock at trigger_window_unlock while the
\* temporary unlock sleeps holding it.
C10_Witness ==
    /\ ipc = "temp_sleep"
    /\ spc = "trigger"
    /\ state_lock = {"interp"}
    /\ relay = "unlocked"

(* ------------------------------------------------------------------ *)
(* C12                                                                 *)
(* ------------------------------------------------------------------ *)
\* C12: the value of lockdown_active the interpreter read at line 133
\* still holds while it waits for and holds the lock (it stands at
\* exit_lockdown only while lockdown_active is true and at enter_lockdown
\* only while it is false), so every completed lockdown-code entry flips
\* lockdown_active; and no step of the scheduler changes lockdown_active.
C12_ToggleFlips ==
    [][ /\ (ipc' = "exit" => lockdown_active')
        /\ (ipc' = "enter" => ~lockdown_active')
        /\ (ToggleStep => lockdown_active' = ~lockdown_active)
        /\ (lockdown_active' # lockdown_active => ToggleStep) ]_vars

\* exit_lockdown has just run although the scheduler's end_window_unlock
\* had meanwhile set state to NORMAL and closed the window over the active
\* lockdown: enter_lockdown ran during the window (raced), the window is
\* closed, and lockdown is cleared.
C12_Witness ==
    /\ log = LOG_CLEARED
    /\ ~lockdown_active
    /\ raced
    /\ ~window_active
    /\ spc = "sleep"
    /\ ipc = "get"

(* ------------------------------------------------------------------ *)
(* C13                                                                 *)
(* ------------------------------------------------------------------ *)
\* C13 (window priority over normal unlock): a step in which
\* temporary_unlock executes while window_active is true and
\* lockdown_active is false leaves state, the flags and the relay
\* unchanged, releases the lock and returns without sleeping.
C13_WindowPriority ==
    [][ (TempStep /\ window_active /\ ~lockdown_active) =>
          /\ UNCHANGED lockvars
          /\ state_lock' = {}
          /\ ipc' = "get"
          /\ log' = LOG_NO_NEED ]_vars

\* A normal code has been refused during a genuinely open window.
C13_Witness ==
    /\ log = LOG_NO_NEED
    /\ window_active
    /\ ~lockdown_active
    /\ state = WINDOW
    /\ relay = "unlocked"
    /\ state_lock = {}
    /\ ipc = "get"

(* ------------------------------------------------------------------ *)
(* C14                                                                 *)
(* ------------------------------------------------------------------ *)
\* C14 (scheduler pairing): the scheduler leaves its interval sleep only
\* for trigger_window_unlock and only when lockdown_active is false at that
\* moment; from there it passes through trigger_window_unlock, the window
\* sleep and end_window_unlock, in this order, once each, before it is back
\* at the interval sleep; and while it stands at the interval sleep no step
\* of the scheduler changes state, the flags, the relay, the lock or the
\* log (any such change is a step of the interpreter).
C14_Pairing ==
    [][ /\ (spc = "sleep" /\ spc' # "sleep" =>
               ~lockdown_active /\ spc' = "trigger")
        /\ (spc = "sleep" /\ lockdown_active => spc' = "sleep")
        /\ (spc = "sleep" /\ spc' = "sleep"
               /\ <<lockvars, state_lock, log>>' # <<lockvars, state_lock, log>>
             => ipc \in {"process", "enter", "exit", "temp", "temp_sleep"})
        /\ (spc = "trigger" /\ spc' # "trigger" => TriggerStep)
        /\ (spc = "window" /\ spc' # "window" => spc' = "end")
        /\ (spc = "end" /\ spc' # "end" => EndStep) ]_vars

\* The scheduler is back at its interval sleep after a trigger/end pair
\* (the last line printed is the window's closing), with no lockdown.
C14_Witness ==
    /\ spc = "sleep"
    /\ log = LOG_CLOSED
    /\ state = NORMAL
    /\ ~lockdown_active
    /\ ~window_active
    /\ relay = "locked"
    /\ ~raced

(* ------------------------------------------------------------------ *)
(* C17                                                                 *)
(* ------------------------------------------------------------------ *)
\* C17: in every reachable state the relay is unlocked only if a temporary
\* unlock is in progress (the interpreter sleeps in temporary_unlock holding
\* state_lock) or a window is genuinely open (state is WINDOW,
\* window_active is true and lockdown_active is false).
C17_UnlockedOnlyIf ==
    relay = "unlocked" =>
      \/ (ipc = "temp_sleep" /\ "interp" \in state_lock)
      \/ (state = WINDOW /\ window_active /\ ~lockdown_active)

\* The relay is unlocked by a temporary unlock that began after a lockdown
\* entered during a window had been closed and cleared.
C17_Witness ==
    /\ relay = "unlocked"
    /\ ipc = "temp_sleep"
    /\ state = NORMAL
    /\ raced
    /\ ~window_active
    /\ ~lockdown_active

(* ------------------------------------------------------------------ *)
(* C18                                                                 *)
(* ------------------------------------------------------------------ *)
\* C18: whenever temporary_unlock refuses a normal code because
\* window_active is true (and lockdown_active is false), the relay is
\* unlocked at that moment.  (Violated: enter_lockdown relocks the relay
\* and neither it nor exit_lockdown clears window_active, so after a
\* lockdown entered and cleared during a window the refusal comes with the
\* relay locked.)
C18_NoNeedMeansUnlocked ==
    [][ (TempStep /\ ~lockdown_active /\ window_active) =>
          relay = "unlocked" ]_vars

(* ------------------------------------------------------------------ *)
(* C19                                                                 *)
(* ------------------------------------------------------------------ *)
\* C19: in every reachable state, state = LOCKDOWN implies lockdown_active,
\* and state = WINDOW implies window_active and not lockdown_active; and
\* while a temporary unlock is in progress state is NORMAL.
C19_ModeImpliesFlags ==
    /\ (state = LOCKDOWN => lockdown_active)
    /\ (state = WINDOW => window_active /\ ~lockdown_active)
    /\ (ipc = "temp_sleep" => state = NORMAL)

\* A temporary unlock is in progress, with a key event waiting in the
\* queue and the scheduler in its interval sleep: state is NORMAL and both
\* flags are clear.
C19_Witness ==
    /\ ipc = "temp_sleep"
    /\ state = NORMAL
    /\ ~window_active
    /\ ~lockdown_active
    /\ log = LOG_TEMP
    /\ spc = "sleep"
    /\ key_queue # <<>>

(* ------------------------------------------------------------------ *)
(* C11                                                                 *)
(* ------------------------------------------------------------------ *)
\* C11: the key events the interpreter has taken, followed by those still
\* waiting in key_queue, are exactly the key events the keypad thread has
\* enqueued, in the order of enqueueing: none is dropped, duplicated or
\* reordered; and a step of the interpreter takes exactly the oldest
\* waiting event.
C11_FifoExactlyOnce ==
    [][ /\ consumed' \o key_queue' = produced'
        /\ (GetStep =>
               consumed' = Append(consumed, produced[Len(consumed) + 1])) ]_vars

\* A key event was enqueued after the four keys of the normal code and
\* waits in key_queue while the interpreter sleeps in temporary_unlock.
C11_Witness ==
    /\ ipc = "temp_sleep"
    /\ consumed = <<"1", "2", "3", "4">>
    /\ produced = <<"1", "2", "3", "4", "9">>
    /\ key_queue = <<"9">>

=============================================================================
